---- MODULE Spec2Model ----
(***************************************************************************)
(* Access-control core of eva4-common (src/src/acl.rs, with the wildcard   *)
(* constants, ItemKind and OID of src/src/lib.rs).                         *)
(*                                                                         *)
(* A string is a sequence of one-character strings, so that splitting,     *)
(* searching, prefix stripping, parsing and formatting are computed as the *)
(* code computes them.                                                     *)
(***************************************************************************)
EXTENDS Integers, Sequences, FiniteSets, TLC

VARIABLES acl, all_zero, inp, out, buffer, threads

vars == <<acl, all_zero, inp, out, buffer, threads>>

(***************************************************************************)
(* Bounds of the model.                                                    *)
(***************************************************************************)
\* highest number of fields (mask lists, ops) a policy record's document names
MaxFields == 2
\* highest number of segments in a mask pattern
MaxMaskSegs == 2
\* highest number of segments in a subject path
MaxSubjSegs == 3
\* highest number of patterns handed to a mask list constructor
MaxPatterns == 2

(***************************************************************************)
(* Strings.                                                                *)
(***************************************************************************)
EmptyStr == <<>>

\* str::find(char): the 0-based position of the first c in s, -1 for None
StrFind(s, c) ==
    IF \E i \in 1..Len(s) : s[i] = c
    THEN (CHOOSE i \in 1..Len(s) : s[i] = c /\ \A j \in 1..(i - 1) : s[j] # c) - 1
    ELSE -1

\* &s[..pos]
StrTo(s, pos) == SubSeq(s, 1, pos)

\* &s[pos..]
StrFrom(s, pos) == SubSeq(s, pos + 1, Len(s))

\* str::split(char): one piece more than there are separators, never empty
RECURSIVE StrSplit(_, _)
StrSplit(s, c) ==
    LET pos == StrFind(s, c)
    IN  IF pos = -1 THEN <<s>>
        ELSE <<StrTo(s, pos)>> \o StrSplit(StrFrom(s, pos + 1), c)

\* [String]::join(sep)
RECURSIVE StrJoin(_, _)
StrJoin(parts, sep) ==
    IF Len(parts) = 0 THEN EmptyStr
    ELSE IF Len(parts) = 1 THEN parts[1]
    ELSE parts[1] \o <<sep>> \o StrJoin(Tail(parts), sep)

\* str::strip_prefix: [some, rest]
StrStripPrefix(s, prefix) ==
    IF Len(s) >= Len(prefix) /\ SubSeq(s, 1, Len(prefix)) = prefix
    THEN [some |-> TRUE, rest |-> StrFrom(s, Len(prefix))]
    ELSE [some |-> FALSE, rest |-> s]

\* char::is_alphanumeric on the characters the model writes
Alphanumeric ==
    {"a", "b", "c", "d", "e", "f", "g", "h", "i", "j", "k", "l", "m",
     "n", "o", "p", "q", "r", "s", "t", "u", "v", "w", "x", "y", "z",
     "K", "L", "S", "U", "V"}

(***************************************************************************)
(* Wildcard tokens (lib.rs).                                               *)
(***************************************************************************)
WILDCARD == {<<"#">>, <<"*">>}

MATCH_ANY == {<<"+">>, <<"?">>}

\* is_str_wildcard that knows "#" alone
is_str_wildcard_hash_only(s) == s = <<"#">>

is_str_wildcard(s) == s \in WILDCARD

is_str_any(s) == s \in MATCH_ANY

OID_ALLOWED_SYMBOLS == {"_", ".", "(", ")", "[", "]", "-", "\\"}

OID_MASK_ALLOWED_SYMBOLS ==
    {"~", "_", ".", "(", ")", "[", "]", "-", "+", "?", "#", "*", "\\"}

(***************************************************************************)
(* Results: Ok(value) or Err(kind).                                        *)
(***************************************************************************)
Ok(v) == [ok |-> TRUE, err |-> "", val |-> v]

Err(kind) == [ok |-> FALSE, err |-> kind, val |-> <<>>]

\* Error::invalid_data
InvalidData == "InvalidData"

\* ErrorKind::FunctionFailed, the kind of Error::failed
FunctionFailed == "FunctionFailed"

(***************************************************************************)
(* EventBuffer (src/src/events.rs): a vector behind a mutex and a size, 0  *)
(* for a buffer without a bound.  mutex is the thread that holds the lock. *)
(***************************************************************************)
NoThread == 0

EventBuffer_bounded(size) == [data |-> <<>>, mutex |-> NoThread, size |-> size]

EventBuffer_unbounded == [data |-> <<>>, mutex |-> NoThread, size |-> 0]

\* no thread calls the buffer
NoThreads == <<>>

(***************************************************************************)
(* PathMask: chunks is Option<Vec<String>>.                                *)
(***************************************************************************)
PathMask_new_any == [some |-> FALSE, chunks |-> <<>>]

PathMask_is_any(mask) == ~mask.some

\* the loop of PathMask::matches_split; path_split and s_m advance together,
\* i is the position of the next item of both
RECURSIVE matches_split_loop(_, _, _)
matches_split_loop(chunks, path_split, i) ==
    IF i <= Len(path_split)
    THEN IF i <= Len(chunks)
         THEN IF is_str_wildcard(chunks[i]) THEN TRUE
              ELSE IF ~is_str_any(chunks[i]) /\ path_split[i] # chunks[i] THEN FALSE
              ELSE matches_split_loop(chunks, path_split, i + 1)
         ELSE FALSE
    ELSE ~(i <= Len(chunks))

\* the loop with a wildcard chunk accepted once the path is exhausted
RECURSIVE matches_split_loop_zero(_, _, _)
matches_split_loop_zero(chunks, path_split, i) ==
    IF i <= Len(path_split)
    THEN IF i <= Len(chunks)
         THEN IF is_str_wildcard(chunks[i]) THEN TRUE
              ELSE IF ~is_str_any(chunks[i]) /\ path_split[i] # chunks[i] THEN FALSE
              ELSE matches_split_loop_zero(chunks, path_split, i + 1)
         ELSE FALSE
    ELSE ~(i <= Len(chunks)) \/ is_str_wildcard(chunks[i])

PathMask_matches_split_zero(mask, path_split) ==
    IF mask.some THEN matches_split_loop_zero(mask.chunks, path_split, 1) ELSE TRUE

\* the loop with exhausted chunks accepted while path segments remain
RECURSIVE matches_split_loop_prefix(_, _, _)
matches_split_loop_prefix(chunks, path_split, i) ==
    IF i <= Len(path_split)
    THEN IF i <= Len(chunks)
         THEN IF is_str_wildcard(chunks[i]) THEN TRUE
              ELSE IF ~is_str_any(chunks[i]) /\ path_split[i] # chunks[i] THEN FALSE
              ELSE matches_split_loop_prefix(chunks, path_split, i + 1)
         ELSE TRUE
    ELSE ~(i <= Len(chunks))

PathMask_matches_split_prefix(mask, path_split) ==
    IF mask.some THEN matches_split_loop_prefix(mask.chunks, path_split, 1) ELSE TRUE

PathMask_matches_split(mask, path_split) ==
    IF mask.some THEN matches_split_loop(mask.chunks, path_split, 1) ELSE TRUE

\* the loop with two chunks taken at an Any chunk
RECURSIVE matches_split_steps_skip(_, _, _, _)
matches_split_steps_skip(chunks, path_split, p, m) ==
    IF p < Len(path_split)
    THEN IF m < Len(chunks)
         THEN IF is_str_wildcard(chunks[m + 1])
              THEN [result |-> TRUE, segments |-> p + 1, tokens |-> m + 1, probe |-> 0]
              ELSE IF ~is_str_any(chunks[m + 1]) /\ path_split[p + 1] # chunks[m + 1]
              THEN [result |-> FALSE, segments |-> p + 1, tokens |-> m + 1, probe |-> 0]
              ELSE IF is_str_any(chunks[m + 1])
              THEN matches_split_steps_skip(chunks, path_split, p + 1, m + 2)
              ELSE matches_split_steps_skip(chunks, path_split, p + 1, m + 1)
         ELSE [result |-> FALSE, segments |-> p + 1, tokens |-> m, probe |-> 0]
    ELSE [result |-> ~(m < Len(chunks)), segments |-> p, tokens |-> m,
          probe |-> IF m < Len(chunks) THEN 1 ELSE 0]

\* the loop of PathMask::matches_split with its two iterators apart: p
\* items were taken from path_split and m from s_m; segments and tokens
\* count the items the loop body took, probe the chunk the test of the
\* exhausted path took
RECURSIVE matches_split_steps(_, _, _, _)
matches_split_steps(chunks, path_split, p, m) ==
    IF p < Len(path_split)
    THEN IF m < Len(chunks)
         THEN IF is_str_wildcard(chunks[m + 1])
              THEN [result |-> TRUE, segments |-> p + 1, tokens |-> m + 1, probe |-> 0]
              ELSE IF ~is_str_any(chunks[m + 1]) /\ path_split[p + 1] # chunks[m + 1]
              THEN [result |-> FALSE, segments |-> p + 1, tokens |-> m + 1, probe |-> 0]
              ELSE matches_split_steps(chunks, path_split, p + 1, m + 1)
         ELSE [result |-> FALSE, segments |-> p + 1, tokens |-> m, probe |-> 0]
    ELSE [result |-> ~(m < Len(chunks)), segments |-> p, tokens |-> m,
          probe |-> IF m < Len(chunks) THEN 1 ELSE 0]

\* PathMask::matches_split with the count of the items taken
PathMask_matches_split_steps(mask, path_split) ==
    IF mask.some THEN matches_split_steps(mask.chunks, path_split, 0, 0)
    ELSE [result |-> TRUE, segments |-> 0, tokens |-> 0, probe |-> 0]

\* the chunk loop of PathMask::from_str: the first wildcard chunk is pushed
\* as "#" and ends the loop
RECURSIVE from_str_chunks(_, _)
from_str_chunks(pieces, i) ==
    IF i > Len(pieces) THEN <<>>
    ELSE IF is_str_wildcard(pieces[i]) THEN << <<"#">> >>
    ELSE <<pieces[i]>> \o from_str_chunks(pieces, i + 1)

\* FromStr for PathMask without the test for the empty text
PathMask_from_str_no_empty(s) ==
    IF is_str_wildcard(s) THEN Ok(PathMask_new_any)
    ELSE Ok([some |-> TRUE, chunks |-> from_str_chunks(StrSplit(s, "/"), 1)])

PathMask_from_str(s) ==
    IF s = EmptyStr THEN Err(InvalidData)
    ELSE IF is_str_wildcard(s) THEN Ok(PathMask_new_any)
    ELSE Ok([some |-> TRUE, chunks |-> from_str_chunks(StrSplit(s, "/"), 1)])

\* Display for PathMask that writes the mask without chunks as "*"
PathMask_to_string_star(mask) ==
    IF mask.some THEN StrJoin(mask.chunks, "/") ELSE <<"*">>

\* Display for PathMask
PathMask_to_string(mask) ==
    IF mask.some THEN StrJoin(mask.chunks, "/") ELSE <<"#">>

(***************************************************************************)
(* ItemKind and OID (lib.rs).                                              *)
(***************************************************************************)
ItemKind == {"Unit", "Sensor", "Lvar", "Lmacro"}

\* Option<ItemKind>::None
NoKind == "None"

ItemKind_as_str(kind) ==
    CASE kind = "Unit" -> <<"u", "n", "i", "t">>
      [] kind = "Sensor" -> <<"s", "e", "n", "s", "o", "r">>
      [] kind = "Lvar" -> <<"l", "v", "a", "r">>
      [] kind = "Lmacro" -> <<"l", "m", "a", "c", "r", "o">>

ItemKind_from_str(s) ==
    CASE s = <<"u", "n", "i", "t">> \/ s = <<"U">> -> Ok("Unit")
      [] s = <<"s", "e", "n", "s", "o", "r">> \/ s = <<"S">> -> Ok("Sensor")
      [] s = <<"l", "v", "a", "r">> \/ s = <<"L", "V">> -> Ok("Lvar")
      [] s = <<"l", "m", "a", "c", "r", "o">> \/ s = <<"K">> -> Ok("Lmacro")
      [] OTHER -> Err(InvalidData)

\* OID::check
OID_check(s, is_path) ==
    IF \A i \in 1..Len(s) :
           \/ s[i] \in Alphanumeric
           \/ s[i] \in OID_ALLOWED_SYMBOLS
           \/ (is_path /\ s[i] = "/")
    THEN Ok(<<>>)
    ELSE Err(InvalidData)

\* str::rfind(char): the 0-based position of the last c in s, -1 for None
StrRFind(s, c) ==
    IF \E i \in 1..Len(s) : s[i] = c
    THEN (CHOOSE i \in 1..Len(s) : s[i] = c /\ \A j \in (i + 1)..Len(s) : s[j] # c) - 1
    ELSE -1

\* OID::_new0 (the length limit of u16::MAX is out of the model's reach)
OID_new0_(kind, id, need_check) ==
    IF need_check /\ ~OID_check(id, TRUE).ok THEN Err(InvalidData)
    ELSE IF id = EmptyStr THEN Err(InvalidData)
    ELSE LET tp_str == ItemKind_as_str(kind)
             p == StrRFind(id, "/")
         IN  Ok([kind |-> kind,
                 oid_str |-> tp_str \o <<":">> \o id,
                 path_str |-> tp_str \o <<"/">> \o id,
                 grp_pos |-> IF p = -1 THEN -1 ELSE p + Len(tp_str) + 1,
                 tpos |-> Len(tp_str) + 1])

OID_new0(kind, id) == OID_new0_(kind, id, TRUE)

OID_new0_unchecked(kind, id) == OID_new0_(kind, id, FALSE)

\* OID::parse_oid
OID_parse_oid(s, c) ==
    LET tpos == StrFind(s, c)
    IN  IF tpos = -1 THEN Err(InvalidData)
        ELSE LET tp == ItemKind_from_str(StrTo(s, tpos))
             IN  IF ~tp.ok THEN Err(tp.err)
                 ELSE OID_new0(tp.val, StrFrom(s, tpos + 1))

\* FromStr for OID
OID_from_str(s) == OID_parse_oid(s, ":")

OID_kind(oid) == oid.kind

OID_full_id(oid) == StrFrom(oid.oid_str, oid.tpos)

OID_as_path(oid) == oid.path_str

\* Display for OID
OID_to_string(oid) == oid.oid_str

\* OID::id: what follows the last '/', or the kind separator
OID_id(oid) ==
    IF oid.grp_pos = -1 THEN StrFrom(oid.oid_str, oid.tpos)
    ELSE StrFrom(oid.oid_str, oid.grp_pos + 1)

\* OID::group: Option<&str>, [some, val]
OID_group(oid) ==
    IF oid.grp_pos = -1 THEN [some |-> FALSE, val |-> EmptyStr]
    ELSE [some |-> TRUE, val |-> SubSeq(oid.oid_str, oid.tpos + 1, oid.grp_pos)]

OID_is_wildcard(oid) == is_str_wildcard(OID_id(oid))

\* to_wildcard_str that leaves the group out
OID_to_wildcard_str_no_group(oid, wildcard_suffix) ==
    ItemKind_as_str(oid.kind) \o <<":">> \o wildcard_suffix

OID_to_wildcard_str(oid, wildcard_suffix) ==
    LET s == ItemKind_as_str(oid.kind) \o <<":">>
        group == OID_group(oid)
    IN  (IF group.some THEN s \o group.val \o <<"/">> ELSE s) \o wildcard_suffix

(***************************************************************************)
(* OIDMask: an optional kind and a PathMask.                               *)
(***************************************************************************)
OIDMask_new_any == [kind |-> NoKind, path |-> PathMask_new_any]

\* OIDMask::check (the length limit of 65000 is out of the model's reach)
OIDMask_check(s) ==
    IF \A i \in 1..Len(s) :
           \/ s[i] \in Alphanumeric
           \/ s[i] \in OID_MASK_ALLOWED_SYMBOLS
           \/ s[i] = "/"
    THEN Ok(<<>>)
    ELSE Err(InvalidData)

\* the closure of parse_oid_mask taken when the separator is found at tpos
parse_oid_mask_at(s, tpos) ==
    IF tpos = Len(s) THEN Err(InvalidData)
    ELSE LET tp_str == StrTo(s, tpos)
             kind == IF is_str_any(tp_str) THEN Ok(NoKind)
                     ELSE ItemKind_from_str(tp_str)
             p == StrFrom(s, tpos + 1)
         IN  IF ~kind.ok THEN Err(kind.err)
             ELSE IF ~OIDMask_check(p).ok THEN Err(OIDMask_check(p).err)
             ELSE LET path == PathMask_from_str(p)
                  IN  IF ~path.ok THEN Err(path.err)
                      ELSE Ok([kind |-> kind.val, path |-> path.val])

OIDMask_parse_oid_mask(s, c) ==
    IF is_str_wildcard(s) THEN Ok(OIDMask_new_any)
    ELSE LET tpos == StrFind(s, c)
         IN  IF tpos = -1
             THEN LET kind == ItemKind_from_str(s)
                  IN  IF ~kind.ok THEN Err(kind.err)
                      ELSE Ok([kind |-> kind.val, path |-> PathMask_new_any])
             ELSE parse_oid_mask_at(s, tpos)

\* FromStr for OIDMask
OIDMask_from_str(s) == OIDMask_parse_oid_mask(s, ":")

OIDMask_from_path(s) == OIDMask_parse_oid_mask(s, "/")

OIDMask_as_path(mask) ==
    IF mask.path.some
    THEN (IF mask.kind # NoKind THEN ItemKind_as_str(mask.kind) ELSE <<"+">>)
         \o <<"/">> \o PathMask_to_string(mask.path)
    ELSE IF mask.kind # NoKind THEN ItemKind_as_str(mask.kind) \o <<"/", "#">>
    ELSE <<"#">>

\* OIDMask::matches without the kind test
OIDMask_matches_any_kind(mask, oid) ==
    PathMask_matches_split(mask.path, StrSplit(OID_full_id(oid), "/"))

OIDMask_matches(mask, oid) ==
    LET oid_tp == OID_kind(oid)
        sp == StrSplit(OID_full_id(oid), "/")
    IN  IF mask.kind # NoKind /\ mask.kind # oid_tp THEN FALSE
        ELSE IF PathMask_matches_split(mask.path, sp) THEN TRUE
        ELSE FALSE

\* OIDMask::to_wildcard_oid; i counts the chunks from 0 and p.len() is the
\* length of the chunk
OIDMask_to_wildcard_oid(mask) ==
    IF mask.kind # NoKind
    THEN IF /\ mask.path.some
            /\ \E n \in 1..Len(mask.path.chunks) :
                  LET p == mask.path.chunks[n]
                      i == n - 1
                  IN  is_str_any(p) \/ (is_str_wildcard(p) /\ i < Len(p))
         THEN Err(InvalidData)
         ELSE OID_new0_unchecked(mask.kind, PathMask_to_string(mask.path))
    ELSE Err(InvalidData)

\* Display for OIDMask
OIDMask_to_string(mask) ==
    IF mask.kind # NoKind
    THEN ItemKind_as_str(mask.kind) \o <<":">> \o PathMask_to_string(mask.path)
    ELSE IF PathMask_is_any(mask.path) THEN <<"#">>
    ELSE <<"+", ":">> \o PathMask_to_string(mask.path)

(***************************************************************************)
(* AclMap, the multi-pattern matcher of the mask lists (crate submap, not  *)
(* part of the sources).  A tree node is the sequence of edge labels that  *)
(* leads to it from the root; the "any" edge carries the label "+".        *)
(*                                                                         *)
(* all_zero is the one point of the matcher the repository does not fix:   *)
(* whether a node flagged all-terminal accepts a subject that is already   *)
(* fully consumed (TRUE) or needs one more subject segment (FALSE).        *)
(***************************************************************************)
AnyEdge == <<"+">>

\* create_acl_map: separator '/', wildcards WILDCARD, match-any MATCH_ANY
create_acl_map == [nodes |-> {<<>>}, terminal |-> {}, all_terminal |-> {}]

RECURSIVE AclMap_insert_walk(_, _, _, _)
AclMap_insert_walk(map, tokens, i, node) ==
    IF i > Len(tokens)
    THEN [map EXCEPT !.terminal = @ \cup {node}]
    ELSE IF tokens[i] \in WILDCARD
    THEN [map EXCEPT !.all_terminal = @ \cup {node}]
    ELSE LET edge == IF tokens[i] \in MATCH_ANY THEN AnyEdge ELSE tokens[i]
             child == Append(node, edge)
         IN  AclMap_insert_walk([map EXCEPT !.nodes = @ \cup {child}],
                                tokens, i + 1, child)

AclMap_insert(map, topic) ==
    AclMap_insert_walk(map, StrSplit(topic, "/"), 1, <<>>)

AclMap_is_empty(map) == map.terminal = {} /\ map.all_terminal = {}

\* the nodes one subject segment away from a frontier
AclMap_advance(map, frontier, segment) ==
    {child \in map.nodes :
        \E node \in frontier :
            \/ (segment # AnyEdge /\ child = Append(node, segment))
            \/ child = Append(node, AnyEdge)}

RECURSIVE AclMap_matches_walk(_, _, _, _, _)
AclMap_matches_walk(map, segments, i, frontier, zero) ==
    IF i > Len(segments)
    THEN \E node \in frontier :
            node \in map.terminal \/ (zero /\ node \in map.all_terminal)
    ELSE IF \E node \in frontier : node \in map.all_terminal THEN TRUE
    ELSE LET next == AclMap_advance(map, frontier, segments[i])
         IN  IF next = {} THEN FALSE
             ELSE AclMap_matches_walk(map, segments, i + 1, next, zero)

AclMap_matches(map, subject) ==
    AclMap_matches_walk(map, StrSplit(subject, "/"), 1, {<<>>}, all_zero)

(***************************************************************************)
(* PathMaskList and OIDMaskList.                                           *)
(***************************************************************************)
\* the for loop of PathMaskList::from_str_list / from_string_list
RECURSIVE PathMaskList_insert_all(_, _, _)
PathMaskList_insert_all(acl_map, s_masks, i) ==
    IF i > Len(s_masks) THEN acl_map
    ELSE IF s_masks[i] # EmptyStr
    THEN PathMaskList_insert_all(AclMap_insert(acl_map, s_masks[i]), s_masks, i + 1)
    ELSE PathMaskList_insert_all(acl_map, s_masks, i + 1)

PathMaskList_from_str_list(s_masks) ==
    [acl_map |-> PathMaskList_insert_all(create_acl_map, s_masks, 1)]

PathMaskList_default == [acl_map |-> create_acl_map]

PathMaskList_matches(list, path) == AclMap_matches(list.acl_map, path)

PathMaskList_is_empty(list) == AclMap_is_empty(list.acl_map)

\* the for loop of OIDMaskList::new over the hash set, in any order
RECURSIVE OIDMaskList_insert_all(_, _)
OIDMaskList_insert_all(acl_map, oid_masks) ==
    IF oid_masks = {} THEN acl_map
    ELSE LET mask == CHOOSE m \in oid_masks : TRUE
         IN  OIDMaskList_insert_all(AclMap_insert(acl_map, OIDMask_as_path(mask)),
                                    oid_masks \ {mask})

OIDMaskList_new(oid_masks) ==
    [oid_masks |-> oid_masks,
     acl_map |-> OIDMaskList_insert_all(create_acl_map, oid_masks)]

\* the for loop of FromIterator for OIDMaskList: every mask inserted into
\* the hash set s
RECURSIVE from_iter_loop(_, _, _)
from_iter_loop(s, masks, i) ==
    IF i > Len(masks) THEN s
    ELSE from_iter_loop(s \cup {masks[i]}, masks, i + 1)

\* from_iter that keeps the last mask alone
OIDMaskList_from_iter_last(masks) ==
    OIDMaskList_new(IF Len(masks) = 0 THEN {} ELSE {masks[Len(masks)]})

OIDMaskList_from_iter(masks) == OIDMaskList_new(from_iter_loop({}, masks, 1))

OIDMaskList_default == [oid_masks |-> {}, acl_map |-> create_acl_map]

OIDMaskList_new0(oid_mask) ==
    [oid_masks |-> {oid_mask},
     acl_map |-> AclMap_insert(create_acl_map, OIDMask_as_path(oid_mask))]

\* new_any whose mask set is left empty
OIDMaskList_new_any_unlisted ==
    [oid_masks |-> {}, acl_map |-> AclMap_insert(create_acl_map, <<"#">>)]

\* the matcher is given WILDCARD[0], the set OIDMask::new_any()
OIDMaskList_new_any ==
    [oid_masks |-> {OIDMask_new_any},
     acl_map |-> AclMap_insert(create_acl_map, <<"#">>)]

\* OIDMaskList::from_str_list / from_string_list: the first pattern that
\* does not parse ends the construction with its error
OIDMaskList_from_str_list(s_masks) ==
    LET parsed == [i \in 1..Len(s_masks) |-> OIDMask_from_str(s_masks[i])]
    IN  IF \E i \in 1..Len(s_masks) : ~parsed[i].ok
        THEN Err(parsed[CHOOSE i \in 1..Len(s_masks) :
                            ~parsed[i].ok /\ \A j \in 1..(i - 1) : parsed[j].ok].err)
        ELSE Ok(OIDMaskList_new({parsed[i].val : i \in 1..Len(s_masks)}))

\* OIDMaskList::try_from_iter over texts: every value converted by
\* TryFrom<&str> for OIDMask, the first failure returned
OIDMaskList_try_from_iter(values) ==
    LET converted == [i \in 1..Len(values) |-> OIDMask_from_str(values[i])]
    IN  IF \E i \in 1..Len(values) : ~converted[i].ok
        THEN Err(converted[CHOOSE i \in 1..Len(values) :
                            ~converted[i].ok /\ \A j \in 1..(i - 1) : converted[j].ok].err)
        ELSE Ok(OIDMaskList_new(from_iter_loop({}, [i \in 1..Len(values) |-> converted[i].val], 1)))

OIDMaskList_matches(list, oid) == AclMap_matches(list.acl_map, OID_as_path(oid))

OIDMaskList_is_empty(list) == list.oid_masks = {}

(***************************************************************************)
(* Acl, the policy record, and its checks.                                 *)
(***************************************************************************)
Op == {"Log", "Moderator", "Supervisor"}

\* Display for Op
Op_to_string(op) ==
    CASE op = "Log" -> <<"l", "o", "g">>
      [] op = "Moderator" -> <<"m", "o", "d", "e", "r", "a", "t", "o", "r">>
      [] op = "Supervisor" -> <<"s", "u", "p", "e", "r", "v", "i", "s", "o", "r">>

\* #[derive(Default)] for AclItemsPvt
AclItemsPvt_default ==
    [items |-> OIDMaskList_default,
     pvt |-> PathMaskList_default,
     rpvt |-> PathMaskList_default]

Acl_check_admin(self) == self.admin

Acl_check_op(self, op) == self.admin \/ op \in self.ops

\* check_item_read with the write grant outside the deny test
Acl_check_item_read_write_undenied(self, oid) ==
    \/ self.admin
    \/ /\ OIDMaskList_matches(self.read.items, oid)
       /\ ~OIDMaskList_matches(self.deny_read.items, oid)
    \/ OIDMaskList_matches(self.write.items, oid)

\* check_item_read that consults read.items alone
Acl_check_item_read_read_only(self, oid) ==
    \/ self.admin
    \/ /\ OIDMaskList_matches(self.read.items, oid)
       /\ ~OIDMaskList_matches(self.deny_read.items, oid)

Acl_check_item_read(self, oid) ==
    \/ self.admin
    \/ /\ \/ OIDMaskList_matches(self.read.items, oid)
          \/ OIDMaskList_matches(self.write.items, oid)
       /\ ~OIDMaskList_matches(self.deny_read.items, oid)

\* check_item_write without the admin short cut
Acl_check_item_write_no_admin(self, oid) ==
    /\ OIDMaskList_matches(self.write.items, oid)
    /\ ~OIDMaskList_matches(self.deny_write.items, oid)
    /\ ~OIDMaskList_matches(self.deny_read.items, oid)

\* check_item_write that tests deny_write.items alone
Acl_check_item_write_own_deny(self, oid) ==
    \/ self.admin
    \/ /\ OIDMaskList_matches(self.write.items, oid)
       /\ ~OIDMaskList_matches(self.deny_write.items, oid)

Acl_check_item_write(self, oid) ==
    \/ self.admin
    \/ /\ OIDMaskList_matches(self.write.items, oid)
       /\ ~OIDMaskList_matches(self.deny_write.items, oid)
       /\ ~OIDMaskList_matches(self.deny_read.items, oid)

\* check_pvt_read that takes a write grant as a read grant, as the item check does
Acl_check_pvt_read_with_write(self, path) ==
    \/ self.admin
    \/ /\ \/ PathMaskList_matches(self.read.pvt, path)
          \/ PathMaskList_matches(self.write.pvt, path)
       /\ ~PathMaskList_matches(self.deny_read.pvt, path)

Acl_check_pvt_read(self, path) ==
    \/ self.admin
    \/ /\ PathMaskList_matches(self.read.pvt, path)
       /\ ~PathMaskList_matches(self.deny_read.pvt, path)

Acl_check_pvt_write(self, path) ==
    \/ self.admin
    \/ /\ PathMaskList_matches(self.write.pvt, path)
       /\ ~PathMaskList_matches(self.deny_write.pvt, path)
       /\ ~PathMaskList_matches(self.deny_read.pvt, path)

HTTPS_PREFIX == <<"h", "t", "t", "p", "s", ":", "/", "/">>

HTTP_PREFIX == <<"h", "t", "t", "p", ":", "/", "/">>

\* the split of check_rpvt_read that strips "https://" alone
rpvt_stripped_path_https_only(path) ==
    LET pos == StrFind(path, "/")
    IN  IF pos = -1 THEN [some |-> FALSE, path |-> EmptyStr]
        ELSE LET node == StrTo(path, pos)
                 uri == StrFrom(path, pos + 1)
                 https == StrStripPrefix(uri, HTTPS_PREFIX)
             IN  [some |-> TRUE,
                  path |-> node \o <<"/">> \o (IF https.some THEN https.rest ELSE uri)]

\* the path check_rpvt_read matches: node and uri split at the first '/',
\* the uri without its scheme; [some |-> FALSE] when there is no '/'
rpvt_stripped_path(path) ==
    LET pos == StrFind(path, "/")
    IN  IF pos = -1 THEN [some |-> FALSE, path |-> EmptyStr]
        ELSE LET node == StrTo(path, pos)
                 uri == StrFrom(path, pos + 1)
                 https == StrStripPrefix(uri, HTTPS_PREFIX)
                 http == StrStripPrefix(uri, HTTP_PREFIX)
                 stripped_uri == IF https.some THEN https.rest
                                 ELSE IF http.some THEN http.rest
                                 ELSE uri
             IN  [some |-> TRUE, path |-> node \o <<"/">> \o stripped_uri]

\* check_rpvt_read that matches a path without '/' as it stands
Acl_check_rpvt_read_unsplit(self, path) ==
    IF self.admin THEN TRUE
    ELSE LET sp == rpvt_stripped_path(path)
             whole == IF sp.some THEN sp.path ELSE path
         IN  /\ PathMaskList_matches(self.read.rpvt, whole)
             /\ ~PathMaskList_matches(self.deny_read.rpvt, whole)

Acl_check_rpvt_read(self, path) ==
    IF self.admin THEN TRUE
    ELSE LET sp == rpvt_stripped_path(path)
         IN  IF sp.some
             THEN /\ PathMaskList_matches(self.read.rpvt, sp.path)
                  /\ ~PathMaskList_matches(self.deny_read.rpvt, sp.path)
             ELSE FALSE

\* Error::access: the kind AccessDenied and a message
AccessDenied == "AccessDenied"

Error_access(message) ==
    [ok |-> FALSE, err |-> AccessDenied, val |-> <<>>, message |-> message]

Acl_contains_acl(self, acl_id) ==
    \E i \in 1..Len(self.from) : self.from[i] = acl_id

\* the message texts of the require_* wrappers
MSG_ADMIN ==
    <<"a", "d", "m", "i", "n", " ", "a", "c", "c", "e", "s", "s", " ", "r",
      "e", "q", "u", "i", "r", "e", "d">>

MSG_OP ==
    <<"o", "p", "e", "r", "a", "t", "i", "o", "n", " ", "a", "c", "c", "e",
      "s", "s", " ", "r", "e", "q", "u", "i", "r", "e", "d", ":", " ">>

MSG_READ ==
    <<"r", "e", "a", "d", " ", "a", "c", "c", "e", "s", "s", " ", "r", "e",
      "q", "u", "i", "r", "e", "d", " ", "f", "o", "r", ":", " ">>

MSG_WRITE ==
    <<"w", "r", "i", "t", "e", " ", "a", "c", "c", "e", "s", "s", " ", "r",
      "e", "q", "u", "i", "r", "e", "d", " ", "f", "o", "r", ":", " ">>

Acl_require_admin(self) ==
    IF Acl_check_admin(self) THEN Ok(<<>>) ELSE Error_access(MSG_ADMIN)

Acl_require_op(self, op) ==
    IF Acl_check_op(self, op) THEN Ok(<<>>)
    ELSE Error_access(MSG_OP \o Op_to_string(op))

Acl_require_item_read(self, oid) ==
    IF Acl_check_item_read(self, oid) THEN Ok(<<>>)
    ELSE Error_access(MSG_READ \o OID_to_string(oid))

Acl_require_item_write(self, oid) ==
    IF Acl_check_item_write(self, oid) THEN Ok(<<>>)
    ELSE Error_access(MSG_WRITE \o OID_to_string(oid))

Acl_require_pvt_read(self, path) ==
    IF Acl_check_pvt_read(self, path) THEN Ok(<<>>)
    ELSE Error_access(MSG_READ \o path)

Acl_require_pvt_write(self, path) ==
    IF Acl_check_pvt_write(self, path) THEN Ok(<<>>)
    ELSE Error_access(MSG_WRITE \o path)

\* require_rpvt_read that asks check_pvt_read
Acl_require_rpvt_read_as_pvt(self, path) ==
    IF Acl_check_pvt_read(self, path) THEN Ok(<<>>)
    ELSE Error_access(MSG_READ \o path)

Acl_require_rpvt_read(self, path) ==
    IF Acl_check_rpvt_read(self, path) THEN Ok(<<>>)
    ELSE Error_access(MSG_READ \o path)

(***************************************************************************)
(* Construction of a policy record from its serialized form.  Every list   *)
(* and the ops set are #[serde(default)] fields: a document names some of  *)
(* them and the others are empty.                                          *)
(***************************************************************************)
\* a set of strings as the list a document holds, in some order
RECURSIVE SetToSeq(_)
SetToSeq(set) ==
    IF set = {} THEN <<>>
    ELSE LET x == CHOOSE y \in set : TRUE IN <<x>> \o SetToSeq(set \ {x})

\* the elements of a vector as a set (collect into a HashSet)
SeqToSet(seq) == {seq[i] : i \in 1..Len(seq)}

\* OIDMaskList::as_string_vec: the Display text of every mask of the hash
\* set, in the order the set is iterated
OIDMaskList_as_string_vec(list) ==
    LET masks == SetToSeq(list.oid_masks)
    IN  [i \in 1..Len(masks) |-> OIDMask_to_string(masks[i])]

\* get_items_allow_deny_reading with the two allow vectors chained
Acl_get_items_allow_deny_reading_chained(self) ==
    IF self.admin THEN [allow |-> << <<"#">> >>, deny |-> <<>>]
    ELSE [allow |-> OIDMaskList_as_string_vec(self.read.items)
                        \o OIDMaskList_as_string_vec(self.write.items),
          deny |-> OIDMaskList_as_string_vec(self.deny_read.items)]

\* the vectors are collected from hash sets of strings, in their order
Acl_get_items_allow_deny_reading(self) ==
    IF self.admin THEN [allow |-> << <<"#">> >>, deny |-> <<>>]
    ELSE LET allow == SeqToSet(OIDMaskList_as_string_vec(self.read.items))
             allow_write == SeqToSet(OIDMaskList_as_string_vec(self.write.items))
             deny == SeqToSet(OIDMaskList_as_string_vec(self.deny_read.items))
         IN  [allow |-> SetToSeq(allow \cup allow_write), deny |-> SetToSeq(deny)]

\* Serialize for OIDMaskList: a sequence of oid_masks.len() Display texts
OIDMaskList_serialize(list) == OIDMaskList_as_string_vec(list)

\* Deserialize for OIDMaskList: every string parsed into the hash set
OIDMaskList_deserialize(masks) == OIDMaskList_from_str_list(masks)

\* Deserialize for PathMaskList
PathMaskList_deserialize(masks) == PathMaskList_from_str_list(masks)

sensor == ItemKind_as_str("Sensor")

unit == ItemKind_as_str("Unit")

\* the values a document's fields are drawn from
ItemMaskTexts == <<sensor \o <<":", "a", "/", "#">>, <<"+", ":", "a", "/", "b">> >>

PvtMaskTexts == << <<"a", "/", "#">>, <<"+", "/", "b">> >>

RpvtMaskTexts == << <<"#">>, <<"+", "/", "a">> >>

OpsValues == <<"Moderator", "Log">>

PoolOf(class) ==
    CASE class = "items" -> ItemMaskTexts
      [] class = "pvt" -> PvtMaskTexts
      [] class = "rpvt" -> RpvtMaskTexts
      [] class = "ops" -> OpsValues

\* the fields a document may name; no operation reads write.rpvt or
\* deny_write.rpvt, which stay empty
DocFields ==
    ({"read", "write", "deny_read", "deny_write"} \X {"items", "pvt"})
        \cup {<<"read", "rpvt">>, <<"deny_read", "rpvt">>, <<"ops", "ops">>}

\* the ways to fill one field: which value of its pool it holds
FieldChoices == {{i} : i \in DOMAIN ItemMaskTexts}

\* the value of one field in a document; filled maps the fields it names
DocSet(filled, field) ==
    IF field \in DOMAIN filled
    THEN {PoolOf(field[2])[i] : i \in filled[field]}
    ELSE {}

AclItemsPvt_deserialize(filled, cat) ==
    [items |-> OIDMaskList_deserialize(SetToSeq(DocSet(filled, <<cat, "items">>))).val,
     pvt |-> PathMaskList_deserialize(SetToSeq(DocSet(filled, <<cat, "pvt">>))),
     rpvt |-> PathMaskList_deserialize(SetToSeq(DocSet(filled, <<cat, "rpvt">>)))]

Acl_deserialize(admin, filled) ==
    [id |-> <<"t">>,
     admin |-> admin,
     read |-> AclItemsPvt_deserialize(filled, "read"),
     write |-> AclItemsPvt_deserialize(filled, "write"),
     deny_read |-> AclItemsPvt_deserialize(filled, "deny_read"),
     deny_write |-> AclItemsPvt_deserialize(filled, "deny_write"),
     ops |-> DocSet(filled, <<"ops", "ops">>),
     from |-> << <<"t">> >>]

\* the record of a document that names id and from alone (acl.rs test_rpvt_acl)
Acl_default == Acl_deserialize(FALSE, <<>>)

\* the subjects of the checks
ItemSubjects ==
    {OID_from_str(s).val :
        s \in {sensor \o <<":", "a">>,
               sensor \o <<":", "a", "/", "b">>,
               unit \o <<":", "a", "/", "b">>}}

PvtSubjects == {<<"a">>, <<"a", "/", "b">>, <<"b", "/", "b">>}

RpvtSubjects ==
    {<<"n", "/", "a">>,
     <<"n", "/">> \o HTTP_PREFIX \o <<"a">>,
     <<"n", "/">> \o HTTPS_PREFIX \o <<"a">>,
     <<"n">>,
     EmptyStr}

\* the record identifiers asked of contains_acl
AclIds == {<<"t">>, <<"u">>}

NoInput == [cls |-> "none", masks |-> <<>>, subject |-> EmptyStr]

NoCall == [op |-> "none"]

Call(op, arg, result) == [op |-> op, arg |-> arg, result |-> result]

Init ==
    /\ all_zero \in BOOLEAN
    /\ \E admin \in BOOLEAN :
        \E present \in {f \in SUBSET DocFields : Cardinality(f) <= MaxFields} :
            \E filled \in [present -> FieldChoices] :
                acl = Acl_deserialize(admin, filled)
    /\ inp = NoInput
    /\ out = NoCall
    /\ buffer = EventBuffer_unbounded
    /\ threads = NoThreads

check_admin ==
    /\ out' = Call("check_admin", EmptyStr, Acl_check_admin(acl))
    /\ UNCHANGED <<acl, all_zero, inp, buffer, threads>>

check_op ==
    \E op \in Op :
        /\ out' = Call("check_op", Op_to_string(op), Acl_check_op(acl, op))
        /\ UNCHANGED <<acl, all_zero, inp, buffer, threads>>

check_item_read ==
    \E oid \in ItemSubjects :
        /\ out' = Call("check_item_read", OID_to_string(oid),
                       Acl_check_item_read(acl, oid))
        /\ UNCHANGED <<acl, all_zero, inp, buffer, threads>>

check_item_write ==
    \E oid \in ItemSubjects :
        /\ out' = Call("check_item_write", OID_to_string(oid),
                       Acl_check_item_write(acl, oid))
        /\ UNCHANGED <<acl, all_zero, inp, buffer, threads>>

check_pvt_read ==
    \E path \in PvtSubjects :
        /\ out' = Call("check_pvt_read", path, Acl_check_pvt_read(acl, path))
        /\ UNCHANGED <<acl, all_zero, inp, buffer, threads>>

check_pvt_write ==
    \E path \in PvtSubjects :
        /\ out' = Call("check_pvt_write", path, Acl_check_pvt_write(acl, path))
        /\ UNCHANGED <<acl, all_zero, inp, buffer, threads>>

check_rpvt_read ==
    \E path \in RpvtSubjects :
        /\ out' = Call("check_rpvt_read", path, Acl_check_rpvt_read(acl, path))
        /\ UNCHANGED <<acl, all_zero, inp, buffer, threads>>

get_items_allow_deny_reading ==
    /\ out' = Call("get_items_allow_deny_reading", EmptyStr,
                   Acl_get_items_allow_deny_reading(acl))
    /\ UNCHANGED <<acl, all_zero, inp, buffer, threads>>

require_admin ==
    /\ out' = Call("require_admin", EmptyStr, Acl_require_admin(acl))
    /\ UNCHANGED <<acl, all_zero, inp, buffer, threads>>

require_op ==
    \E op \in Op :
        /\ out' = Call("require_op", Op_to_string(op), Acl_require_op(acl, op))
        /\ UNCHANGED <<acl, all_zero, inp, buffer, threads>>

require_item_read ==
    \E oid \in ItemSubjects :
        /\ out' = Call("require_item_read", OID_to_string(oid),
                       Acl_require_item_read(acl, oid))
        /\ UNCHANGED <<acl, all_zero, inp, buffer, threads>>

require_item_write ==
    \E oid \in ItemSubjects :
        /\ out' = Call("require_item_write", OID_to_string(oid),
                       Acl_require_item_write(acl, oid))
        /\ UNCHANGED <<acl, all_zero, inp, buffer, threads>>

require_pvt_read ==
    \E path \in PvtSubjects :
        /\ out' = Call("require_pvt_read", path, Acl_require_pvt_read(acl, path))
        /\ UNCHANGED <<acl, all_zero, inp, buffer, threads>>

require_pvt_write ==
    \E path \in PvtSubjects :
        /\ out' = Call("require_pvt_write", path, Acl_require_pvt_write(acl, path))
        /\ UNCHANGED <<acl, all_zero, inp, buffer, threads>>

require_rpvt_read ==
    \E path \in RpvtSubjects :
        /\ out' = Call("require_rpvt_read", path, Acl_require_rpvt_read(acl, path))
        /\ UNCHANGED <<acl, all_zero, inp, buffer, threads>>

\* contains_acl that takes the list it reads
contains_acl_draining ==
    \E acl_id \in AclIds :
        /\ out' = Call("contains_acl", acl_id, Acl_contains_acl(acl, acl_id))
        /\ acl' = [acl EXCEPT !.from = <<>>]
        /\ UNCHANGED <<all_zero, inp, buffer, threads>>

contains_acl ==
    \E acl_id \in AclIds :
        /\ out' = Call("contains_acl", acl_id, Acl_contains_acl(acl, acl_id))
        /\ UNCHANGED <<acl, all_zero, inp, buffer, threads>>

Next ==
    \/ check_admin
    \/ check_op
    \/ check_item_read
    \/ check_item_write
    \/ check_pvt_read
    \/ check_pvt_write
    \/ check_rpvt_read
    \/ require_admin
    \/ require_op
    \/ require_item_read
    \/ require_item_write
    \/ require_pvt_read
    \/ require_pvt_write
    \/ require_rpvt_read
    \/ get_items_allow_deny_reading
    \/ contains_acl

Spec == Init /\ [][Next]_vars

(***************************************************************************)
(* Properties of the checks of a policy record (specification Spec).       *)
(***************************************************************************)
CheckOps ==
    {"check_admin", "check_op", "check_item_read", "check_item_write",
     "check_pvt_read", "check_pvt_write", "check_rpvt_read"}

\* the identifier the last item check was about
OutOID == OID_from_str(out.arg).val

\* the path the last reverse-proxy check matched
OutRpvt == rpvt_stripped_path(out.arg)

\* C1: with the admin flag set every check returns true, for every subject
\* and whatever the allow and deny lists hold.
C1_AdminForcesTrue ==
    (acl.admin /\ out.op \in CheckOps) => out.result = TRUE

\* an admin record whose deny_write.items matches the identifier it may write
C1_Witness ==
    /\ acl.admin
    /\ out.op = "check_item_write"
    /\ OIDMaskList_matches(acl.deny_write.items, OutOID)
    /\ out.result = TRUE

\* C2: for a record that is not admin a matching deny list makes the check
\* false, whatever the allow lists hold: deny_read for the read checks,
\* deny_write for the write checks.
C2_DenyOverridesAllow ==
    ~acl.admin =>
        /\ (out.op = "check_item_read"
                /\ OIDMaskList_matches(acl.deny_read.items, OutOID))
            => out.result = FALSE
        /\ (out.op = "check_pvt_read"
                /\ PathMaskList_matches(acl.deny_read.pvt, out.arg))
            => out.result = FALSE
        /\ (out.op = "check_rpvt_read" /\ OutRpvt.some
                /\ PathMaskList_matches(acl.deny_read.rpvt, OutRpvt.path))
            => out.result = FALSE
        /\ (out.op = "check_item_write"
                /\ OIDMaskList_matches(acl.deny_write.items, OutOID))
            => out.result = FALSE
        /\ (out.op = "check_pvt_write"
                /\ PathMaskList_matches(acl.deny_write.pvt, out.arg))
            => out.result = FALSE

\* a read denied although write.items grants the identifier
C2_Witness ==
    /\ ~acl.admin
    /\ out.op = "check_item_read"
    /\ OIDMaskList_matches(acl.write.items, OutOID)
    /\ OIDMaskList_matches(acl.deny_read.items, OutOID)
    /\ out.result = FALSE

\* C3: for a record that is not admin deny_read blocks write as well, for
\* items and for private paths.
C3_DenyReadBlocksWrite ==
    ~acl.admin =>
        /\ (out.op = "check_item_write"
                /\ OIDMaskList_matches(acl.deny_read.items, OutOID))
            => out.result = FALSE
        /\ (out.op = "check_pvt_write"
                /\ PathMaskList_matches(acl.deny_read.pvt, out.arg))
            => out.result = FALSE

\* a write granted by write.items, not denied by deny_write.items, refused
\* because deny_read.items matches
C3_Witness ==
    /\ ~acl.admin
    /\ out.op = "check_item_write"
    /\ OIDMaskList_matches(acl.write.items, OutOID)
    /\ ~OIDMaskList_matches(acl.deny_write.items, OutOID)
    /\ OIDMaskList_matches(acl.deny_read.items, OutOID)
    /\ out.result = FALSE

\* C4: check_item_read is true exactly when admin is set, or read.items or
\* write.items matches and deny_read.items does not.
C4_ItemReadRule ==
    out.op = "check_item_read" =>
        out.result =
            (\/ acl.admin
             \/ /\ \/ OIDMaskList_matches(acl.read.items, OutOID)
                   \/ OIDMaskList_matches(acl.write.items, OutOID)
                /\ ~OIDMaskList_matches(acl.deny_read.items, OutOID))

\* a read granted by write.items alone, deny_write.items matching as well
C4_Witness ==
    /\ ~acl.admin
    /\ out.op = "check_item_read"
    /\ ~OIDMaskList_matches(acl.read.items, OutOID)
    /\ OIDMaskList_matches(acl.write.items, OutOID)
    /\ OIDMaskList_matches(acl.deny_write.items, OutOID)
    /\ out.result = TRUE

\* C5: check_pvt_read is true exactly when admin is set, or read.pvt matches
\* and deny_read.pvt does not; write.pvt is not consulted.
C5_PvtReadRule ==
    out.op = "check_pvt_read" =>
        out.result =
            (\/ acl.admin
             \/ /\ PathMaskList_matches(acl.read.pvt, out.arg)
                /\ ~PathMaskList_matches(acl.deny_read.pvt, out.arg))

\* a path granted in write.pvt alone is not readable
C5_Witness ==
    /\ ~acl.admin
    /\ out.op = "check_pvt_read"
    /\ PathMaskList_matches(acl.write.pvt, out.arg)
    /\ ~PathMaskList_matches(acl.read.pvt, out.arg)
    /\ ~PathMaskList_matches(acl.deny_read.pvt, out.arg)
    /\ out.result = FALSE

\* the nodes and the scheme-free uris of the reverse-proxy subjects
RpvtNodes == {<<"n">>}

RpvtUris == {<<"a">>}

\* C12: for a record that is not admin the reverse-proxy read of n/u,
\* n/http://u and n/https://u, u without a scheme of its own, is
\* read.rpvt.matches(n/u) and not deny_read.rpvt.matches(n/u).
C12_SchemeInsensitive ==
    (~acl.admin /\ out.op = "check_rpvt_read") =>
        \A n \in RpvtNodes, u \in RpvtUris :
            out.arg \in {n \o <<"/">> \o u,
                         n \o <<"/">> \o HTTP_PREFIX \o u,
                         n \o <<"/">> \o HTTPS_PREFIX \o u}
            => out.result =
                (/\ PathMaskList_matches(acl.read.rpvt, n \o <<"/">> \o u)
                 /\ ~PathMaskList_matches(acl.deny_read.rpvt, n \o <<"/">> \o u))

\* n/http://a refused because deny_read.rpvt matches n/a, which it does not
\* match with the scheme left in place
C12_Witness ==
    /\ ~acl.admin
    /\ out.op = "check_rpvt_read"
    /\ out.arg = <<"n", "/">> \o HTTP_PREFIX \o <<"a">>
    /\ PathMaskList_matches(acl.read.rpvt, <<"n", "/", "a">>)
    /\ PathMaskList_matches(acl.deny_read.rpvt, <<"n", "/", "a">>)
    /\ ~PathMaskList_matches(acl.deny_read.rpvt, out.arg)
    /\ out.result = FALSE

\* C13: for a record that is not admin a reverse-proxy subject without '/'
\* is denied, whatever read.rpvt holds.
C13_NoSeparatorDenied ==
    (~acl.admin /\ out.op = "check_rpvt_read" /\ StrFind(out.arg, "/") = -1)
        => out.result = FALSE

\* "n" denied although read.rpvt holds "#" and matches it
C13_Witness ==
    /\ ~acl.admin
    /\ out.op = "check_rpvt_read"
    /\ out.arg = <<"n">>
    /\ PathMaskList_matches(acl.read.rpvt, out.arg)
    /\ ~PathMaskList_matches(acl.deny_read.rpvt, out.arg)
    /\ out.result = FALSE

\* the value the check_* predicate of a require_* call has for its subject
RequireCheck ==
    CASE out.op = "require_admin" -> Acl_check_admin(acl)
      [] out.op = "require_op" ->
            \E op \in Op : Op_to_string(op) = out.arg /\ Acl_check_op(acl, op)
      [] out.op = "require_item_read" -> Acl_check_item_read(acl, OutOID)
      [] out.op = "require_item_write" -> Acl_check_item_write(acl, OutOID)
      [] out.op = "require_pvt_read" -> Acl_check_pvt_read(acl, out.arg)
      [] out.op = "require_pvt_write" -> Acl_check_pvt_write(acl, out.arg)
      [] out.op = "require_rpvt_read" -> Acl_check_rpvt_read(acl, out.arg)

RequireOps ==
    {"require_admin", "require_op", "require_item_read", "require_item_write",
     "require_pvt_read", "require_pvt_write", "require_rpvt_read"}

\* the text ends with the suffix
EndsWith(text, suffix) ==
    /\ Len(text) >= Len(suffix)
    /\ SubSeq(text, Len(text) - Len(suffix) + 1, Len(text)) = suffix

\* C14: a require_* wrapper returns Ok(()) exactly when its check_* is true
\* for the same record and subject, and otherwise an error of the kind
\* AccessDenied whose message carries the subject's text.
C14_RequireFollowsCheck ==
    out.op \in RequireOps =>
        /\ out.result.ok = RequireCheck
        /\ out.result.ok => out.result = Ok(<<>>)
        /\ ~out.result.ok =>
            /\ out.result.err = AccessDenied
            /\ EndsWith(out.result.message, out.arg)

\* a reverse-proxy read with a scheme refused with AccessDenied: read.pvt
\* does not match the subject, deny_read.rpvt matches the stripped path
C14_Witness ==
    /\ out.op = "require_rpvt_read"
    /\ ~acl.admin
    /\ out.arg = <<"n", "/">> \o HTTPS_PREFIX \o <<"a">>
    /\ PathMaskList_matches(acl.read.rpvt, OutRpvt.path)
    /\ PathMaskList_matches(acl.deny_read.rpvt, OutRpvt.path)
    /\ out.result.err = AccessDenied
    /\ out.result.message = MSG_READ \o out.arg

\* the Display texts of the masks of a list
MaskTexts(list) == {OIDMask_to_string(mask) : mask \in list.oid_masks}

\* no element of the vector occurs twice
DuplicateFree(seq) == \A i, j \in 1..Len(seq) : seq[i] = seq[j] => i = j

\* C15: get_items_allow_deny_reading of an admin record is (["#"], []); of
\* another record allow is the duplicate-free union of the texts of
\* read.items and write.items and deny the texts of deny_read.items.
C15_AllowDenyReading ==
    out.op = "get_items_allow_deny_reading" =>
        IF acl.admin
        THEN out.result.allow = << <<"#">> >> /\ out.result.deny = <<>>
        ELSE /\ DuplicateFree(out.result.allow)
             /\ SeqToSet(out.result.allow)
                    = MaskTexts(acl.read.items) \cup MaskTexts(acl.write.items)
             /\ SeqToSet(out.result.deny) = MaskTexts(acl.deny_read.items)

\* read.items and write.items hold the same mask, which allow lists once
C15_Witness ==
    /\ out.op = "get_items_allow_deny_reading"
    /\ ~acl.admin
    /\ acl.read.items.oid_masks # {}
    /\ acl.read.items.oid_masks = acl.write.items.oid_masks
    /\ Len(out.result.allow) = 1
    /\ out.result.deny = <<>>

(***************************************************************************)
(* Masks and mask lists on their own: a pattern, or a list of patterns,    *)
(* is parsed and matched against one subject.                              *)
(***************************************************************************)
SeqsUpTo(S, n) == UNION {[1..k -> S] : k \in 1..n}

Tokens == {<<"a">>, <<"b">>, <<"+">>, <<"?">>, <<"#">>, <<"*">>}

SubjectSegments == {<<"a">>, <<"b">>}

PathPatterns == {StrJoin(ts, "/") : ts \in SeqsUpTo(Tokens, MaxMaskSegs)}

OIDPatterns ==
    {k \o <<":">> \o pt : k \in {sensor, <<"+">>}, pt \in PathPatterns}
        \cup {<<"#">>, <<"*">>, sensor, unit \o <<":", "#">>}

PathSubjectsAll ==
    {StrJoin(ss, "/") : ss \in SeqsUpTo(SubjectSegments, MaxSubjSegs)} \cup {EmptyStr}

OIDSubjectsAll ==
    {k \o <<":">> \o s : k \in {sensor, unit}, s \in PathSubjectsAll \ {EmptyStr}}

\* the patterns the lists are built from
PathListPool ==
    {<<"a", "/", "#">>, <<"+", "/", "b">>, <<"a">>, <<"#">>, <<"*">>, EmptyStr}

OIDListPool ==
    {sensor \o <<":", "a", "/", "#">>, <<"+", ":", "a", "/", "b">>,
     unit \o <<":", "+">>, sensor \o <<":", "#">>, <<"#">>, EmptyStr}

\* the tokens a text handed to the parsers is written with: the tokens of
\* the patterns, the empty segment and a character no mask may hold
TextTokens == Tokens \cup {EmptyStr, <<"$">>}

\* texts of up to MaxMaskSegs tokens, and each of them with one more segment
PathTexts ==
    LET texts == {StrJoin(ts, "/") : ts \in SeqsUpTo(TextTokens, MaxMaskSegs)}
    IN  texts \cup {text \o <<"/", "b">> : text \in texts}

\* the kind tags of the texts: a kind, its short form, any kind, a wildcard,
\* nothing
KindTexts == {sensor, <<"U">>, <<"+">>, <<"#">>, EmptyStr}

OIDTexts ==
    {k \o <<":">> \o pt : k \in KindTexts, pt \in PathTexts}
        \cup {<<"#">>, <<"*">>, sensor, EmptyStr}

\* paths with an empty segment
EmptySegmentSubjects ==
    {<<"a", "/", "/", "b">>, <<"/", "a">>, <<"a", "/">>, <<"/">>}

MaskInput(cls, masks, subject) == [cls |-> cls, masks |-> masks, subject |-> subject]

Applied(op, res) ==
    [op |-> op, ok |-> res.ok, err |-> res.err, result |-> res.ok /\ res.val]

InitMask ==
    /\ all_zero \in BOOLEAN
    /\ acl = Acl_default
    /\ \/ \E m \in PathTexts : inp = MaskInput("path_text", <<m>>, EmptyStr)
       \/ \E m \in OIDTexts : inp = MaskInput("oid_text", <<m>>, EmptyStr)
       \/ \E m \in PathPatterns, s \in PathSubjectsAll :
            inp = MaskInput("path", <<m>>, s)
       \/ \E ms \in SeqsUpTo(PathListPool, MaxPatterns) \cup {<<>>}, s \in PathSubjectsAll :
            inp = MaskInput("path", ms, s)
       \/ \E m \in OIDPatterns, s \in OIDSubjectsAll :
            inp = MaskInput("oid", <<m>>, s)
       \/ \E ms \in SeqsUpTo(OIDListPool, MaxPatterns) \cup {<<>>}, s \in OIDSubjectsAll :
            inp = MaskInput("oid", ms, s)
       \/ \E ms \in SeqsUpTo(PathListPool, MaxPatterns) \cup {<<>>} :
            inp = MaskInput("path_list", ms, EmptyStr)
       \/ \E m \in PathPatterns, s \in PathSubjectsAll \cup EmptySegmentSubjects :
            inp = MaskInput("path_steps", <<m>>, s)
       \/ \E ms \in SeqsUpTo(OIDListPool, MaxPatterns) \cup {<<>>} :
            inp = MaskInput("oid_list", ms, EmptyStr)
    /\ out = NoCall
    /\ buffer = EventBuffer_unbounded
    /\ threads = NoThreads

\* a PathMask parsed from the pattern and matched against the split subject
PathMask_match ==
    /\ inp.cls = "path"
    /\ Len(inp.masks) = 1
    /\ LET mask == PathMask_from_str(inp.masks[1])
       IN  out' = Applied("PathMask_matches_split",
                    IF mask.ok
                    THEN Ok(PathMask_matches_split(mask.val, StrSplit(inp.subject, "/")))
                    ELSE mask)
    /\ UNCHANGED <<acl, all_zero, inp, buffer, threads>>

\* a PathMask parsed from the pattern and matched against the split subject,
\* with the count of the items its two iterators gave
PathMask_match_steps ==
    /\ inp.cls = "path_steps"
    /\ PathMask_from_str(inp.masks[1]).ok
    /\ out' = [op |-> "PathMask_matches_split_steps",
               steps |-> PathMask_matches_split_steps(
                            PathMask_from_str(inp.masks[1]).val,
                            StrSplit(inp.subject, "/"))]
    /\ UNCHANGED <<acl, all_zero, inp, buffer, threads>>

\* PathMaskList::from_str_list, then PathMaskList::matches
PathMaskList_match ==
    /\ inp.cls = "path"
    /\ out' = Applied("PathMaskList_matches",
                Ok(PathMaskList_matches(PathMaskList_from_str_list(inp.masks),
                                        inp.subject)))
    /\ UNCHANGED <<acl, all_zero, inp, buffer, threads>>

\* an OIDMask parsed from the pattern, then OIDMask::matches
OIDMask_match ==
    /\ inp.cls = "oid"
    /\ Len(inp.masks) = 1
    /\ LET mask == OIDMask_from_str(inp.masks[1])
       IN  out' = Applied("OIDMask_matches",
                    IF mask.ok
                    THEN Ok(OIDMask_matches(mask.val, OID_from_str(inp.subject).val))
                    ELSE mask)
    /\ UNCHANGED <<acl, all_zero, inp, buffer, threads>>

\* OIDMaskList::from_str_list, then OIDMaskList::matches
OIDMaskList_match ==
    /\ inp.cls = "oid"
    /\ LET list == OIDMaskList_from_str_list(inp.masks)
       IN  out' = Applied("OIDMaskList_matches",
                    IF list.ok
                    THEN Ok(OIDMaskList_matches(list.val, OID_from_str(inp.subject).val))
                    ELSE list)
    /\ UNCHANGED <<acl, all_zero, inp, buffer, threads>>

\* the outcome of a parse: the mask and its Display text
Parsed(op, res, text) ==
    [op |-> op, ok |-> res.ok, err |-> res.err, result |-> res.val, text |-> text]

\* FromStr for PathMask, then Display
PathMask_parse ==
    /\ inp.cls = "path_text"
    /\ LET mask == PathMask_from_str(inp.masks[1])
       IN  out' = Parsed("PathMask_from_str", mask,
                    IF mask.ok THEN PathMask_to_string(mask.val) ELSE EmptyStr)
    /\ UNCHANGED <<acl, all_zero, inp, buffer, threads>>

\* FromStr for OIDMask, then Display
OIDMask_parse ==
    /\ inp.cls = "oid_text"
    /\ LET mask == OIDMask_from_str(inp.masks[1])
       IN  out' = Parsed("OIDMask_from_str", mask,
                    IF mask.ok THEN OIDMask_to_string(mask.val) ELSE EmptyStr)
    /\ UNCHANGED <<acl, all_zero, inp, buffer, threads>>

\* a parsed mask converted by to_wildcard_oid, the identifier tested with
\* is_wildcard and rendered by to_wildcard_str("%")
OIDMask_to_wildcard ==
    /\ inp.cls = "oid_text"
    /\ OIDMask_from_str(inp.masks[1]).ok
    /\ LET oid == OIDMask_to_wildcard_oid(OIDMask_from_str(inp.masks[1]).val)
       IN  out' = [op |-> "OIDMask_to_wildcard_oid", ok |-> oid.ok, err |-> oid.err,
                   result |-> oid.val,
                   wildcard |-> oid.ok /\ OID_is_wildcard(oid.val),
                   text |-> IF oid.ok THEN OID_to_wildcard_str(oid.val, <<"%">>)
                            ELSE EmptyStr]
    /\ UNCHANGED <<acl, all_zero, inp, buffer, threads>>

\* the masks parsed from the patterns, one by one
ParsedMasks(texts) == [i \in 1..Len(texts) |-> OIDMask_from_str(texts[i]).val]

\* a list built from a sequence of masks, serialized and matched
OIDMaskList_build ==
    /\ inp.cls = "oid"
    /\ \A i \in 1..Len(inp.masks) : OIDMask_from_str(inp.masks[i]).ok
    /\ LET list == OIDMaskList_from_iter(ParsedMasks(inp.masks))
       IN  out' = [op |-> "OIDMaskList_from_iter", ok |-> TRUE, err |-> "",
                   result |-> OIDMaskList_matches(list, OID_from_str(inp.subject).val),
                   entries |-> OIDMaskList_serialize(list)]
    /\ UNCHANGED <<acl, all_zero, inp, buffer, threads>>

\* the outcome of a constructor: the list
Built(op, res) == [op |-> op, ok |-> res.ok, err |-> res.err, result |-> res.val]

\* PathMaskList::from_str_list
PathMaskList_construct ==
    /\ inp.cls = "path_list"
    /\ out' = Built("PathMaskList_from_str_list",
                    Ok(PathMaskList_from_str_list(inp.masks)))
    /\ UNCHANGED <<acl, all_zero, inp, buffer, threads>>

\* the constructors of OIDMaskList: default and new_any of nothing, new0 of
\* one mask, try_from_iter and from_str_list of the texts
OIDMaskList_construct ==
    /\ inp.cls = "oid_list"
    /\ \/ /\ Len(inp.masks) = 0
          /\ \/ out' = Built("OIDMaskList_default", Ok(OIDMaskList_default))
             \/ out' = Built("OIDMaskList_new_any", Ok(OIDMaskList_new_any))
       \/ /\ Len(inp.masks) = 1
          /\ OIDMask_from_str(inp.masks[1]).ok
          /\ out' = Built("OIDMaskList_new0",
                          Ok(OIDMaskList_new0(OIDMask_from_str(inp.masks[1]).val)))
       \/ out' = Built("OIDMaskList_try_from_iter", OIDMaskList_try_from_iter(inp.masks))
       \/ out' = Built("OIDMaskList_from_str_list", OIDMaskList_from_str_list(inp.masks))
    /\ UNCHANGED <<acl, all_zero, inp, buffer, threads>>

NextMask ==
    \/ PathMask_parse
    \/ OIDMask_parse
    \/ OIDMask_to_wildcard
    \/ PathMask_match_steps
    \/ PathMask_match
    \/ PathMaskList_match
    \/ OIDMask_match
    \/ OIDMaskList_match
    \/ OIDMaskList_build
    \/ PathMaskList_construct
    \/ OIDMaskList_construct

SpecMask == InitMask /\ [][NextMask]_vars

(***************************************************************************)
(* Properties of masks and mask lists (specification SpecMask).            *)
(***************************************************************************)
\* the last call matched one parsed mask against the subject
MaskCall ==
    /\ out.op \in {"PathMask_matches_split", "OIDMask_matches"}
    /\ out.ok

InOIDMask == OIDMask_from_str(inp.masks[1]).val

InOID == OID_from_str(inp.subject).val

\* the path mask and the subject segments of that call
InPathMask ==
    IF inp.cls = "path" THEN PathMask_from_str(inp.masks[1]).val ELSE InOIDMask.path

InSegments ==
    IF inp.cls = "path" THEN StrSplit(inp.subject, "/")
    ELSE StrSplit(OID_full_id(InOID), "/")

\* the kind filter of the call's mask lets the subject through
KindPasses ==
    inp.cls = "path" \/ InOIDMask.kind = NoKind \/ InOIDMask.kind = OID_kind(InOID)

\* a token accepts a segment: Any accepts every segment, a literal itself
TokenAccepts(token, segment) == is_str_any(token) \/ token = segment

\* the first k tokens accept the first k segments
PrefixAccepted(chunks, segments, k) ==
    /\ Len(segments) >= k
    /\ \A i \in 1..k : TokenAccepts(chunks[i], segments[i])

\* the mask is k Literal/Any tokens followed by the All token
EndsWithAll(mask) ==
    /\ mask.some
    /\ Len(mask.chunks) >= 1
    /\ is_str_wildcard(mask.chunks[Len(mask.chunks)])
    /\ \A i \in 1..(Len(mask.chunks) - 1) : ~is_str_wildcard(mask.chunks[i])

\* the mask holds no All token
HasNoAll(mask) ==
    /\ mask.some
    /\ \A i \in 1..Len(mask.chunks) : ~is_str_wildcard(mask.chunks[i])

\* C6: a list of identifier masks matches an identifier exactly when one of
\* its masks matches it on its own.
C6_ListEqualsAnyMask ==
    (out.op = "OIDMaskList_matches" /\ out.ok) =>
        out.result =
            (\E mask \in OIDMaskList_from_str_list(inp.masks).val.oid_masks :
                OIDMask_matches(mask, InOID))

\* C6, for the matcher whose all-terminal node needs one more segment
C6_ListEqualsAnyMaskNonZero == ~all_zero => C6_ListEqualsAnyMask

\* C7 as claimed: a mask of k Literal/Any tokens followed by All matches
\* every subject whose first k segments those tokens accept, the subject of
\* exactly k segments included.
C7_AllMatchesZeroOrMore ==
    (/\ MaskCall /\ KindPasses
     /\ EndsWithAll(InPathMask)
     /\ PrefixAccepted(InPathMask.chunks, InSegments, Len(InPathMask.chunks) - 1))
        => out.result = TRUE

\* C7 as amended: such a mask matches a subject whose first k segments the
\* tokens accept exactly when the subject has more than k segments; the
\* subject of exactly k segments does not match.
C7_AllMatchesOneOrMore ==
    (/\ MaskCall /\ KindPasses
     /\ EndsWithAll(InPathMask)
     /\ PrefixAccepted(InPathMask.chunks, InSegments, Len(InPathMask.chunks) - 1))
        => out.result = (Len(InSegments) > Len(InPathMask.chunks) - 1)

\* a subject that ends where the All token begins is not matched
C7_Witness ==
    /\ MaskCall /\ KindPasses
    /\ EndsWithAll(InPathMask)
    /\ Len(InPathMask.chunks) = 2
    /\ Len(InSegments) = 1
    /\ PrefixAccepted(InPathMask.chunks, InSegments, 1)
    /\ out.result = FALSE

\* C8: a mask of n tokens without All matches exactly the subjects of n
\* segments that its tokens accept one by one; no proper prefix and no
\* proper extension matches.
C8_ExactLength ==
    (MaskCall /\ KindPasses /\ HasNoAll(InPathMask)) =>
        out.result =
            (/\ Len(InSegments) = Len(InPathMask.chunks)
             /\ PrefixAccepted(InPathMask.chunks, InSegments, Len(InPathMask.chunks)))

\* a proper extension of a mask without All is not matched
C8_Witness ==
    /\ MaskCall /\ KindPasses
    /\ HasNoAll(InPathMask)
    /\ Len(InSegments) > Len(InPathMask.chunks)
    /\ PrefixAccepted(InPathMask.chunks, InSegments, Len(InPathMask.chunks))
    /\ out.result = FALSE

\* C9: a mask with a kind filter never matches an identifier of another
\* kind, on its own or as the one mask of a list; a mask without a kind
\* filter applies the path rule alone.
C9_KindFilter ==
    /\ (out.op = "OIDMask_matches" /\ out.ok) =>
        /\ (InOIDMask.kind # NoKind /\ InOIDMask.kind # OID_kind(InOID))
            => out.result = FALSE
        /\ InOIDMask.kind = NoKind
            => out.result = PathMask_matches_split(InOIDMask.path, InSegments)
    /\ (out.op = "OIDMaskList_matches" /\ out.ok /\ Len(inp.masks) = 1) =>
        ((InOIDMask.kind # NoKind /\ InOIDMask.kind # OID_kind(InOID))
            => out.result = FALSE)

\* a MatchAll path under another kind is not matched
C9_Witness ==
    /\ out.op = "OIDMask_matches" /\ out.ok
    /\ InOIDMask.kind = "Sensor"
    /\ PathMask_is_any(InOIDMask.path)
    /\ OID_kind(InOID) = "Unit"
    /\ out.result = FALSE

BarePatterns == {<<"#">>, <<"*">>}

\* C10: the masks parsed from the bare patterns "#" and "*" match every
\* subject, the empty path included, and so does a list that holds only
\* such a mask.
C10_BareWildcard ==
    (/\ out.op \in {"PathMask_matches_split", "PathMaskList_matches",
                    "OIDMask_matches", "OIDMaskList_matches"}
     /\ Len(inp.masks) = 1
     /\ inp.masks[1] \in BarePatterns)
        => (out.ok /\ out.result = TRUE)

\* the mask parsed from "*" matched against the empty path
C10_Witness ==
    /\ out.op = "PathMask_matches_split"
    /\ inp.masks = << <<"*">> >>
    /\ inp.subject = EmptyStr
    /\ out.result = TRUE

\* the text the last parse was given
InText == inp.masks[1]

ParseOps == {"PathMask_from_str", "OIDMask_from_str"}

\* the kind tag and the path part of an identifier mask text "kind:path"
HasKindSep(text) == StrFind(text, ":") # -1

KindPart(text) == StrTo(text, StrFind(text, ":"))

PathPart(text) == IF HasKindSep(text) THEN StrFrom(text, StrFind(text, ":") + 1) ELSE text

\* the position of the first All segment of a path text, 0 when it has none
FirstAll(text) ==
    LET pieces == StrSplit(text, "/")
    IN  IF \E i \in 1..Len(pieces) : pieces[i] \in WILDCARD
        THEN CHOOSE i \in 1..Len(pieces) :
                /\ pieces[i] \in WILDCARD
                /\ \A j \in 1..(i - 1) : pieces[j] \notin WILDCARD
        ELSE 0

\* the path text has segments after its first All segment
HasTail(text) == FirstAll(text) > 0 /\ FirstAll(text) < Len(StrSplit(text, "/"))

\* the path text cut right after its first All segment
Truncated(text) == StrJoin(SubSeq(StrSplit(text, "/"), 1, FirstAll(text)), "/")

\* the text of the last parse with its path part cut after the first All
InTruncated ==
    IF out.op = "OIDMask_from_str"
    THEN KindPart(InText) \o <<":">> \o Truncated(PathPart(InText))
    ELSE Truncated(InText)

\* the text of the last parse is a pattern with segments after its first All
InHasTail ==
    /\ out.op \in ParseOps
    /\ out.ok
    /\ out.op = "OIDMask_from_str" => HasKindSep(InText)
    /\ HasTail(PathPart(InText))

\* what the parser of the last call makes of another text
Reparse(text) ==
    IF out.op = "OIDMask_from_str" THEN OIDMask_from_str(text) ELSE PathMask_from_str(text)

\* C11: a pattern with segments after its first All segment parses to the
\* mask of the pattern cut right after that segment, wherever the segment is.
C11_ParseStopsAtFirstAll ==
    InHasTail =>
        /\ Reparse(InTruncated).ok
        /\ out.result = Reparse(InTruncated).val

\* C11 for a first All segment that is not the first segment of the path
C11_ParseStopsAtLaterAll ==
    (InHasTail /\ FirstAll(PathPart(InText)) > 1) =>
        /\ Reparse(InTruncated).ok
        /\ out.result = Reparse(InTruncated).val

\* "a/*/b" parsed to the mask of "a/#"
C11_LaterAllReached ==
    /\ InHasTail
    /\ out.op = "PathMask_from_str"
    /\ InText = <<"a", "/", "*", "/", "b">>
    /\ out.result = PathMask_from_str(<<"a", "/", "#">>).val

\* the texts that name a kind
KindNames ==
    {ItemKind_as_str(kind) : kind \in ItemKind} \cup {<<"U">>, <<"S">>, <<"L", "V">>, <<"K">>}

\* the last parse failed with InvalidData and produced no mask
FailedInvalidData == ~out.ok /\ out.err = InvalidData /\ out.result = <<>>

\* C16: parsing fails with InvalidData for the empty text, for an identifier
\* mask text with nothing after the kind separator, and for one whose kind
\* tag is no kind (a wildcard, the empty tag); the kind tag "+" parses to
\* any kind.
C16_ParseErrors ==
    /\ (out.op \in ParseOps /\ InText = EmptyStr) => FailedInvalidData
    /\ (out.op = "OIDMask_from_str" /\ HasKindSep(InText)) =>
        /\ PathPart(InText) = EmptyStr => FailedInvalidData
        /\ (KindPart(InText) \notin KindNames \cup MATCH_ANY) => FailedInvalidData
        /\ (KindPart(InText) = <<"+">> /\ out.ok) => out.result.kind = NoKind

\* "sensor:" is refused
C16_Witness ==
    /\ out.op = "OIDMask_from_str"
    /\ InText = sensor \o <<":">>
    /\ FailedInvalidData

\* "+:a" parsed to a mask of any kind
C16_AnyKindReached ==
    /\ out.op = "OIDMask_from_str"
    /\ InText = <<"+", ":", "a">>
    /\ out.ok
    /\ out.result.kind = NoKind

\* a path text with an empty segment: two '/' in a row, or one at an end
HasEmptySegment(text) ==
    \E i \in 1..Len(StrSplit(text, "/")) : StrSplit(text, "/")[i] = EmptyStr

\* a path text with a character no mask may hold
HasBadChar(text) ==
    \E i \in 1..Len(text) :
        text[i] \notin Alphanumeric \cup OID_MASK_ALLOWED_SYMBOLS \cup {"/"}

\* C17: a mask text with an empty path segment or with a character outside
\* the allowed set is refused with InvalidData when it is parsed, as a
\* PathMask and as an identifier mask.
C17_MalformedRejected ==
    (/\ out.op \in ParseOps
     /\ out.op = "OIDMask_from_str" => HasKindSep(InText)
     /\ HasEmptySegment(PathPart(InText)) \/ HasBadChar(PathPart(InText)))
        => FailedInvalidData

\* C17 for the one case the code refuses: a character outside the allowed
\* set in the path part of an identifier mask
C17_BadCharInOIDMaskRejected ==
    (/\ out.op = "OIDMask_from_str"
     /\ HasKindSep(InText)
     /\ HasBadChar(PathPart(InText)))
        => FailedInvalidData

\* a path text with "#" in the place of a final "*"
StarToHash(text) ==
    LET pieces == StrSplit(text, "/")
    IN  IF pieces[Len(pieces)] = <<"*">>
        THEN StrJoin([pieces EXCEPT ![Len(pieces)] = <<"#">>], "/")
        ELSE text

\* the last parse was given a pattern without a segment after its first All
InHasNoTail ==
    /\ out.op \in ParseOps
    /\ out.ok
    /\ ~HasTail(PathPart(InText))

\* the full name of the kind a kind tag stands for, "+" for any kind
KindName(tag) ==
    IF tag \in MATCH_ANY THEN <<"+">> ELSE ItemKind_as_str(ItemKind_from_str(tag).val)

\* C18 as claimed: the text of a mask parsed from a pattern without a
\* segment after its first All is the pattern with a final "*" written "#".
C18_FormatAsWritten ==
    InHasNoTail => out.text = StarToHash(InText)

\* C18 as amended: that holds for a PathMask; an identifier mask writes its
\* path part that way after the full name of its kind ("+" for any kind),
\* any kind with the bare All path as "#" and a kind alone as "kind:#".
C18_FormatCanonical ==
    InHasNoTail =>
        IF out.op = "PathMask_from_str" THEN out.text = StarToHash(InText)
        ELSE IF ~HasKindSep(InText)
        THEN out.text = (IF InText \in WILDCARD THEN <<"#">>
                         ELSE KindName(InText) \o <<":", "#">>)
        ELSE IF KindPart(InText) \in MATCH_ANY /\ PathPart(InText) \in WILDCARD
        THEN out.text = <<"#">>
        ELSE out.text = KindName(KindPart(InText)) \o <<":">>
                            \o StarToHash(PathPart(InText))

\* "+:*" written as "#"
C18_Witness ==
    /\ InHasNoTail
    /\ out.op = "OIDMask_from_str"
    /\ InText = <<"+", ":", "*">>
    /\ out.text = <<"#">>

\* C19: the text of a parsed mask parses, and to a mask equal to it.
C19_TextIsFixedPoint ==
    (out.op \in ParseOps /\ out.ok) =>
        /\ Reparse(out.text).ok
        /\ Reparse(out.text).val = out.result

\* C19 for every pattern but those whose first path segment is an All
\* segment with segments after it
C19_FixedPointButLeadingAll ==
    (/\ out.op \in ParseOps /\ out.ok
     /\ ~(HasTail(PathPart(InText)) /\ FirstAll(PathPart(InText)) = 1))
        => /\ Reparse(out.text).ok
           /\ Reparse(out.text).val = out.result

\* the sequence without the repetitions of its elements
RECURSIVE Dedup(_)
Dedup(seq) ==
    IF Len(seq) = 0 THEN <<>>
    ELSE LET front == Dedup(SubSeq(seq, 1, Len(seq) - 1))
         IN  IF seq[Len(seq)] \in SeqToSet(front) THEN front
             ELSE Append(front, seq[Len(seq)])

Reversed(seq) == [i \in 1..Len(seq) |-> seq[Len(seq) + 1 - i]]

\* the masks the last list was built from
InMasks == ParsedMasks(inp.masks)

\* C20: a list built from a sequence of masks serializes one entry for each
\* distinct mask of the sequence and matches as the list built from the
\* sequence without repetitions does, and as the list built from the
\* sequence in another order does.
C20_RepetitionAndOrder ==
    out.op = "OIDMaskList_from_iter" =>
        /\ Len(out.entries) = Len(Dedup(InMasks))
        /\ Len(out.entries) = Len(OIDMaskList_serialize(OIDMaskList_from_iter(Reversed(InMasks))))
        /\ out.result = OIDMaskList_matches(OIDMaskList_from_iter(Dedup(InMasks)), InOID)
        /\ out.result = OIDMaskList_matches(OIDMaskList_from_iter(Reversed(InMasks)), InOID)

\* a list built from the same mask twice, with one serialized entry
C20_Witness ==
    /\ out.op = "OIDMaskList_from_iter"
    /\ Len(InMasks) = 2
    /\ InMasks[1] = InMasks[2]
    /\ Len(out.entries) = 1
    /\ out.result = TRUE

\* the matcher that holds the patterns of a set and no other
RECURSIVE MatcherOf(_)
MatcherOf(patterns) ==
    IF patterns = {} THEN create_acl_map
    ELSE LET pattern == CHOOSE x \in patterns : TRUE
         IN  AclMap_insert(MatcherOf(patterns \ {pattern}), pattern)

\* the last call built a list of identifier masks
OIDListBuilt ==
    /\ inp.cls = "oid_list"
    /\ out.op \in {"OIDMaskList_default", "OIDMaskList_new_any", "OIDMaskList_new0",
                   "OIDMaskList_try_from_iter", "OIDMaskList_from_str_list"}
    /\ out.ok

\* C21: the matcher of a list built by any constructor holds the path forms
\* of the masks of its set and nothing else, and the list is empty exactly
\* when its matcher matches no subject.
C21_MatcherReflectsSet ==
    OIDListBuilt =>
        /\ out.result.acl_map
            = MatcherOf({OIDMask_as_path(mask) : mask \in out.result.oid_masks})
        /\ OIDMaskList_is_empty(out.result)
            = (\A subject \in OIDSubjectsAll :
                ~OIDMaskList_matches(out.result, OID_from_str(subject).val))

\* new_any: the set holds the mask whose path form is the pattern "#"
C21_Witness ==
    /\ OIDListBuilt
    /\ out.op = "OIDMaskList_new_any"
    /\ out.result.oid_masks = {OIDMask_new_any}
    /\ ~OIDMaskList_is_empty(out.result)
    /\ out.result.acl_map = AclMap_insert(create_acl_map, <<"#">>)

\* the texts of a list without its empty strings
IsNonEmptyText(text) == text # EmptyStr

NonEmptyTexts(texts) == SelectSeq(texts, IsNonEmptyText)

\* C22: a list built from texts is the list built from the same texts
\* without the empty strings, which cause no error, for a list of path
\* masks and for a list of identifier masks.
C22_EmptyTextSkipped ==
    /\ (inp.cls = "path_list" /\ out.op = "PathMaskList_from_str_list") =>
        /\ out.ok
        /\ out.result = PathMaskList_from_str_list(NonEmptyTexts(inp.masks))
    /\ (inp.cls = "oid_list" /\ out.op = "OIDMaskList_from_str_list") =>
        /\ out.ok = OIDMaskList_from_str_list(NonEmptyTexts(inp.masks)).ok
        /\ out.result = OIDMaskList_from_str_list(NonEmptyTexts(inp.masks)).val

\* C22 for the list of path masks alone
C22_PathListSkipsEmpty ==
    (inp.cls = "path_list" /\ out.op = "PathMaskList_from_str_list") =>
        /\ out.ok
        /\ out.result = PathMaskList_from_str_list(NonEmptyTexts(inp.masks))

\* a list of path masks built from a pattern and an empty string
C22_PathListReached ==
    /\ inp.cls = "path_list"
    /\ out.op = "PathMaskList_from_str_list"
    /\ inp.masks = << <<"a", "/", "#">>, EmptyStr >>
    /\ out.result = PathMaskList_from_str_list(<< <<"a", "/", "#">> >>)

\* the mask the last conversion was applied to
ConvertedMask == OIDMask_from_str(InText).val

Converted == out.op = "OIDMask_to_wildcard_oid"

\* the path of the mask holds an Any token
HasAnyToken(mask) ==
    /\ mask.path.some
    /\ \E i \in 1..Len(mask.path.chunks) : is_str_any(mask.path.chunks[i])

\* C23: to_wildcard_oid of a mask whose path holds an Any token fails with
\* an error of the kind Unsupported.
C23_AnyTokenUnsupported ==
    (Converted /\ HasAnyToken(ConvertedMask)) =>
        (~out.ok /\ out.err = "Unsupported")

\* C23 with the kind the code returns
C23_AnyTokenInvalidData ==
    (Converted /\ HasAnyToken(ConvertedMask)) =>
        (~out.ok /\ out.err = InvalidData)

\* "sensor:+/#" refused
C23_AnyTokenReached ==
    /\ Converted
    /\ InText = sensor \o <<":", "+", "/", "#">>
    /\ ~out.ok

\* the chunks of a path before its first All token, each followed by '/'
RECURSIVE LiteralPrefix(_)
LiteralPrefix(chunks) ==
    IF chunks = <<>> \/ is_str_wildcard(Head(chunks)) THEN EmptyStr
    ELSE Head(chunks) \o <<"/">> \o LiteralPrefix(Tail(chunks))

\* a LIKE query with one trailing '%' selects the identifiers that start
\* with the text before it
Selects(text, oid) ==
    LET prefix == SubSeq(text, 1, Len(text) - 1)
    IN  /\ Len(oid.oid_str) >= Len(prefix)
        /\ SubSeq(oid.oid_str, 1, Len(prefix)) = prefix

\* the rendering is the kind and the literal prefix followed by '%', and it
\* selects the identifiers the mask matches
RenderedAsPrefix ==
    /\ out.text = ItemKind_as_str(ConvertedMask.kind) \o <<":">>
                    \o LiteralPrefix(ConvertedMask.path.chunks) \o <<"%">>
    /\ \A subject \in OIDSubjectsAll :
         Selects(out.text, OID_from_str(subject).val)
            = OIDMask_matches(ConvertedMask, OID_from_str(subject).val)

\* the path of the mask is All, or ends with an All token
EndsWithAllToken(mask) ==
    \/ ~mask.path.some
    \/ /\ mask.path.chunks # <<>>
       /\ is_str_wildcard(mask.path.chunks[Len(mask.path.chunks)])

\* C24: whenever to_wildcard_oid succeeds, the identifier is a wildcard
\* identifier and its rendering with the suffix "%" is the kind and the
\* literal prefix of the mask followed by "%", which selects exactly the
\* identifiers the mask matches.
C24_SuccessIsWildcard ==
    (Converted /\ out.ok) => (out.wildcard /\ RenderedAsPrefix)

\* C24 for the masks whose path is All or ends with an All token
C24_TrailingAllIsWildcard ==
    (Converted /\ out.ok /\ EndsWithAllToken(ConvertedMask)) =>
        (out.wildcard /\ RenderedAsPrefix)

\* "sensor:a/#" rendered "sensor:a/%"
C24_TrailingAllReached ==
    /\ Converted
    /\ out.ok
    /\ InText = sensor \o <<":", "a", "/", "#">>
    /\ out.text = sensor \o <<":", "a", "/", "%">>

\* a mask of literal segments converted to an identifier that is no wildcard
C24_LiteralReached ==
    /\ Converted
    /\ out.ok
    /\ InText = sensor \o <<":", "a", "/", "b">>
    /\ ~out.wildcard
    /\ out.text = sensor \o <<":", "a", "/", "%">>

\* the path of the mask is the one chunk "#", which parsing leaves for a
\* text that starts with an All token and goes on
LeadingAllChunk(mask) ==
    /\ mask.path.some
    /\ Len(mask.path.chunks) = 1
    /\ is_str_wildcard(mask.path.chunks[1])

\* C28: for a mask with a concrete kind to_wildcard_oid succeeds exactly
\* when the parsed path holds no Any token; for a mask without a kind it
\* always fails.
C28_SucceedsIffNoAnyToken ==
    Converted =>
        (out.ok = (ConvertedMask.kind # NoKind /\ ~HasAnyToken(ConvertedMask)))

\* C28 apart from the masks whose path is the one chunk "#"
C28_SucceedsIffNoAnyTokenNorLeadingAll ==
    (Converted /\ ~LeadingAllChunk(ConvertedMask)) =>
        (out.ok = (ConvertedMask.kind # NoKind /\ ~HasAnyToken(ConvertedMask)))

\* "sensor:#/b" holds no Any token and is refused
C28_LeadingAllRefused ==
    /\ Converted
    /\ InText = sensor \o <<":", "#", "/", "b">>
    /\ ~HasAnyToken(ConvertedMask)
    /\ ~out.ok

\* a mask without a kind refused
C28_NoKindRefused ==
    /\ Converted
    /\ ConvertedMask.kind = NoKind
    /\ ~HasAnyToken(ConvertedMask)
    /\ ~out.ok

\* C27: whenever check_item_write(id) is true, check_item_read(id) is true.
C27_WriteImpliesRead ==
    (out.op = "check_item_write" /\ out.result) =>
        Acl_check_item_read(acl, OutOID)

\* a record that is no admin grants a write, and so the read
C27_Witness ==
    /\ out.op = "check_item_write"
    /\ out.result
    /\ ~acl.admin
    /\ acl.read.items.oid_masks = {}
    /\ Acl_check_item_read(acl, OutOID)

\* some text of the vector, parsed and matched on its own, matches the
\* identifier
SomeTextMatches(texts, oid) ==
    \E i \in 1..Len(texts) :
        /\ OIDMask_from_str(texts[i]).ok
        /\ OIDMask_matches(OIDMask_from_str(texts[i]).val, oid)

\* the lists returned agree with the read check on every identifier
ListsAgreeWithRead ==
    \A id \in ItemSubjects :
        Acl_check_item_read(acl, id)
            = (/\ SomeTextMatches(out.result.allow, id)
               /\ ~SomeTextMatches(out.result.deny, id))

\* C29: check_item_read(id) is true exactly when some mask of the allow
\* list returned by get_items_allow_deny_reading, parsed and matched on its
\* own, matches id and no mask of the deny list does.
C29_ListsAgreeWithRead ==
    out.op = "get_items_allow_deny_reading" => ListsAgreeWithRead

\* C29 under a matcher whose All token needs a segment, as the mask's does
C29_ListsAgreeWithReadAllNeedsSegment ==
    (out.op = "get_items_allow_deny_reading" /\ ~all_zero) => ListsAgreeWithRead

\* C29 under a matcher whose All token matches the exhausted subject
C29_ListsAgreeWithReadAllMatchesNone ==
    (out.op = "get_items_allow_deny_reading" /\ all_zero) => ListsAgreeWithRead

\* the operation whose Display text is the argument of the last call
OpOf(arg) == CHOOSE op \in Op : Op_to_string(op) = arg

\* the result of the call run alone on the record
ResultAlone(self, op, arg) ==
    CASE op = "check_admin" -> Acl_check_admin(self)
      [] op = "check_op" -> Acl_check_op(self, OpOf(arg))
      [] op = "check_item_read" -> Acl_check_item_read(self, OID_from_str(arg).val)
      [] op = "check_item_write" -> Acl_check_item_write(self, OID_from_str(arg).val)
      [] op = "check_pvt_read" -> Acl_check_pvt_read(self, arg)
      [] op = "check_pvt_write" -> Acl_check_pvt_write(self, arg)
      [] op = "check_rpvt_read" -> Acl_check_rpvt_read(self, arg)
      [] op = "require_admin" -> Acl_require_admin(self)
      [] op = "require_op" -> Acl_require_op(self, OpOf(arg))
      [] op = "require_item_read" -> Acl_require_item_read(self, OID_from_str(arg).val)
      [] op = "require_item_write" -> Acl_require_item_write(self, OID_from_str(arg).val)
      [] op = "require_pvt_read" -> Acl_require_pvt_read(self, arg)
      [] op = "require_pvt_write" -> Acl_require_pvt_write(self, arg)
      [] op = "require_rpvt_read" -> Acl_require_rpvt_read(self, arg)
      [] op = "get_items_allow_deny_reading" -> Acl_get_items_allow_deny_reading(self)
      [] op = "contains_acl" -> Acl_contains_acl(self, arg)

MatchedAlone == out.op = "PathMask_matches_split_steps"

C26_ChecksTotal ==
    /\ out.op \in CheckOps => out.result \in BOOLEAN
    /\ out.op \in RequireOps =>
        /\ out.result.ok \in BOOLEAN
        /\ ~out.result.ok => out.result.err = AccessDenied

C26_EmptySegmentReached ==
    /\ MatchedAlone
    /\ inp.subject = <<"a", "/", "/", "b">>
    /\ out.steps.result


(***************************************************************************)
(* Concurrent callers of one EventBuffer (specification SpecBuffer).  Each *)
(* thread runs one call at a time; a call takes the lock in one step and   *)
(* runs the statements under the lock in the next ones; the guard is       *)
(* dropped when the call returns.                                          *)
(***************************************************************************)
MaxThreads == 2

\* the size of the largest bounded buffer
MaxSize == 2

\* the events an unbounded buffer holds before the threads stop pushing
MaxStored == 3

Threads == 1..MaxThreads

Events == {"e"}

NoResult == [ok |-> TRUE, err |-> "", val |-> "none"]

Idle == [pc |-> "idle", value |-> "none", result |-> NoResult]

\* thread t moves to pc
Moved(t, pc, value, result) ==
    [threads EXCEPT ![t] = [pc |-> pc, value |-> value, result |-> result]]

\* parking_lot::Mutex::lock that never waits
Mutex_lock_ready_always(mutex) == TRUE

\* parking_lot::Mutex::lock returns once no thread holds the lock
Mutex_lock_ready(mutex) == mutex = NoThread

InitBuffer ==
    /\ acl = Acl_default
    /\ all_zero = FALSE
    /\ inp = NoInput
    /\ out = NoCall
    /\ \/ \E size \in 1..MaxSize : buffer = EventBuffer_bounded(size)
       \/ buffer = EventBuffer_unbounded
    /\ threads = [t \in Threads |-> Idle]

\* a thread calls push(value), len(), is_empty() or take()
push_call(t) ==
    \E value \in Events :
        /\ threads[t].pc = "idle"
        /\ buffer.size > 0 \/ Len(buffer.data) < MaxStored
        /\ threads' = Moved(t, "push_lock", value, NoResult)
        /\ UNCHANGED <<acl, all_zero, inp, out, buffer>>

len_call(t) ==
    /\ threads[t].pc = "idle"
    /\ threads' = Moved(t, "len_lock", "none", NoResult)
    /\ UNCHANGED <<acl, all_zero, inp, out, buffer>>

is_empty_call(t) ==
    /\ threads[t].pc = "idle"
    /\ threads' = Moved(t, "is_empty_lock", "none", NoResult)
    /\ UNCHANGED <<acl, all_zero, inp, out, buffer>>

take_call(t) ==
    /\ threads[t].pc = "idle"
    /\ threads' = Moved(t, "take_lock", "none", NoResult)
    /\ UNCHANGED <<acl, all_zero, inp, out, buffer>>

\* self.data.lock() of push
push_lock(t) ==
    /\ threads[t].pc = "push_lock"
    /\ Mutex_lock_ready(buffer.mutex)
    /\ buffer' = [buffer EXCEPT !.mutex = t]
    /\ threads' = Moved(t, "push_test", threads[t].value, NoResult)
    /\ UNCHANGED <<acl, all_zero, inp, out>>

\* the test of push: a full bounded buffer returns the error and drops the
\* guard
push_test(t) ==
    /\ threads[t].pc = "push_test"
    /\ IF buffer.size > 0 /\ Len(buffer.data) >= buffer.size
       THEN /\ buffer' = [buffer EXCEPT !.mutex = NoThread]
            /\ threads' = Moved(t, "idle", threads[t].value, Err(FunctionFailed))
       ELSE /\ threads' = Moved(t, "push_store", threads[t].value, NoResult)
            /\ UNCHANGED buffer
    /\ UNCHANGED <<acl, all_zero, inp, out>>

\* buf.push(value); Ok(())
push_store(t) ==
    /\ threads[t].pc = "push_store"
    /\ buffer' = [buffer EXCEPT !.data = Append(@, threads[t].value),
                                !.mutex = NoThread]
    /\ threads' = Moved(t, "idle", threads[t].value, Ok(<<>>))
    /\ UNCHANGED <<acl, all_zero, inp, out>>

push(t) == push_call(t) \/ push_lock(t) \/ push_test(t) \/ push_store(t)

len_lock(t) ==
    /\ threads[t].pc = "len_lock"
    /\ Mutex_lock_ready(buffer.mutex)
    /\ buffer' = [buffer EXCEPT !.mutex = t]
    /\ threads' = Moved(t, "len_read", "none", NoResult)
    /\ UNCHANGED <<acl, all_zero, inp, out>>

len_read(t) ==
    /\ threads[t].pc = "len_read"
    /\ buffer' = [buffer EXCEPT !.mutex = NoThread]
    /\ threads' = Moved(t, "idle", "none", Ok(Len(buffer.data)))
    /\ UNCHANGED <<acl, all_zero, inp, out>>

len(t) == len_call(t) \/ len_lock(t) \/ len_read(t)

is_empty_lock(t) ==
    /\ threads[t].pc = "is_empty_lock"
    /\ Mutex_lock_ready(buffer.mutex)
    /\ buffer' = [buffer EXCEPT !.mutex = t]
    /\ threads' = Moved(t, "is_empty_read", "none", NoResult)
    /\ UNCHANGED <<acl, all_zero, inp, out>>

is_empty_read(t) ==
    /\ threads[t].pc = "is_empty_read"
    /\ buffer' = [buffer EXCEPT !.mutex = NoThread]
    /\ threads' = Moved(t, "idle", "none", Ok(buffer.data = <<>>))
    /\ UNCHANGED <<acl, all_zero, inp, out>>

is_empty(t) == is_empty_call(t) \/ is_empty_lock(t) \/ is_empty_read(t)

take_lock(t) ==
    /\ threads[t].pc = "take_lock"
    /\ Mutex_lock_ready(buffer.mutex)
    /\ buffer' = [buffer EXCEPT !.mutex = t]
    /\ threads' = Moved(t, "take_swap", "none", NoResult)
    /\ UNCHANGED <<acl, all_zero, inp, out>>

\* std::mem::take: the vector is returned and an empty one left
take_swap(t) ==
    /\ threads[t].pc = "take_swap"
    /\ buffer' = [buffer EXCEPT !.data = <<>>, !.mutex = NoThread]
    /\ threads' = Moved(t, "idle", "none", Ok(buffer.data))
    /\ UNCHANGED <<acl, all_zero, inp, out>>

take(t) == take_call(t) \/ take_lock(t) \/ take_swap(t)

NextBuffer ==
    \E t \in Threads :
        \/ push(t)
        \/ len(t)
        \/ is_empty(t)
        \/ take(t)

SpecBuffer == InitBuffer /\ [][NextBuffer]_vars

(***************************************************************************)
(* Properties of the event buffer (specification SpecBuffer).              *)
(***************************************************************************)
\* thread t returns from push in this step
PushReturned(t) ==
    /\ threads[t].pc \in {"push_test", "push_store"}
    /\ threads'[t].pc = "idle"

\* the push that returns Ok found fewer events than the size, or no size,
\* and stored its event; the one that returns the error found the buffer
\* of a bounded size full and left the events as they were
PushOutcome(t) ==
    IF threads'[t].result.ok
    THEN /\ buffer.size = 0 \/ Len(buffer.data) < buffer.size
         /\ buffer'.data = Append(buffer.data, threads[t].value)
    ELSE /\ threads'[t].result.err = FunctionFailed
         /\ buffer.size > 0
         /\ Len(buffer.data) = buffer.size
         /\ buffer'.data = buffer.data

\* C30: a buffer made by bounded(n), n > 0, never stores more than n events
\* under any interleaving of push, len and take; a push succeeds only when
\* fewer than n events are stored, and one that finds n stored returns an
\* error and leaves the events unchanged; a buffer made by unbounded()
\* never rejects a push.
C30_BoundedNeverExceeds ==
    /\ [](buffer.size > 0 => Len(buffer.data) <= buffer.size)
    /\ [][\A t \in Threads : PushReturned(t) => PushOutcome(t)]_vars

\* a push refused by a full buffer while another thread waits for the lock
C30_Witness ==
    /\ buffer.size = 2
    /\ Len(buffer.data) = 2
    /\ \E t, u \in Threads :
        /\ threads[t].pc = "idle"
        /\ threads[t].result = Err(FunctionFailed)
        /\ threads[u].pc \in {"push_test", "take_lock", "len_read"}

\* a buffer without a bound that holds more events than any bounded one
C30_UnboundedReached ==
    /\ buffer.size = 0
    /\ Len(buffer.data) > MaxSize

====
